---- MODULE Spec2Model ----
(***************************************************************************)
(* Satisfiability model of the IVC note circuit, ivcnotes/src/circuit/cs.rs *)
(* (synth), with the identity helpers of ivcnotes/src/id.rs.                *)
(*                                                                         *)
(* A field element is a sequence of integers.  An integer n of the field   *)
(* is <<0, n>>; a hash is its tag followed by the encodings of its         *)
(* arguments.  Every tag has a fixed arity, so the encoding is a prefix    *)
(* code and distinct hash inputs give distinct field elements: the hashes  *)
(* are collision free, as the circuit's security argument assumes.         *)
(*                                                                         *)
(* The u64 values are scaled to ValueBits bits and the field modulus to    *)
(* 2^(ValueBits+2)-1, which keeps the relations the comparison gadget      *)
(* relies on: the modulus is odd, u64::MAX + 1 <= (p-1)/2, and a wrapped   *)
(* difference of two u64 values is larger than (p-1)/2.                    *)
(***************************************************************************)
EXTENDS Integers, Sequences, FiniteSets

VARIABLES cir, pc, cs
vars == <<cir, pc, cs>>

\* ------------------------------------------------------------------ bounds
ValueBits == 2
MaxStep == 1
NumKeys == 2

U64Max == 2^ValueBits - 1
P == 2^(ValueBits + 2) - 1
Values == 0..U64Max
Keys == 1..NumKeys

\* ---------------------------------------------------------- field elements
Fe(n) == <<0, n>>
Zero == Fe(0)

\* the value of an integer field element
Int_of(x) == x[2]

\* field subtraction of two integer field elements
FieldSub(a, b) == Fe((Int_of(a) - Int_of(b)) % P)

\* --------------------------------------------------------------- Hasher
var_note(asset_hash, owner, value, step, parent_note, out_index) ==
    <<1>> \o asset_hash \o owner \o value \o step \o parent_note \o out_index
var_blind_note(note_hash, blind) == <<2>> \o note_hash \o blind
var_state(left, right) == <<3>> \o left \o right
var_nullifier(note_hash, nullifier_key) == <<4>> \o note_hash \o nullifier_key
var_sighash(note_in, note_out_0, note_out_1) ==
    <<5>> \o note_in \o note_out_0 \o note_out_1
var_id_commitment(nullifier_key, pubkey) == <<6>> \o nullifier_key \o pubkey

\* NoteOutIndex::inner : three distinct field elements
index_issue == Fe(0)
index_0 == Fe(1)
index_1 == Fe(2)

\* ------------------------------------------------------ identity (id.rs)
\* the public key (a curve point) of signing key k
public_key(k) == <<7, k>>
\* the nullifier key of identity k
nullifier_key_of(k) == Fe(40 + k)
\* Auth::generate: address = id_commitment(nullifier_key, public key)
address(k) == var_id_commitment(nullifier_key_of(k), public_key(k))

\* EdDSA: for a public key, a nonce point r and a message there is exactly
\* one scalar s that verifies
sig_scalar(pubkey, r, msg) == <<8>> \o pubkey \o r \o msg
nonce_point(n) == <<9, n>>
\* Signer::sign with nonce n
sign(k, n, msg) ==
    [r |-> nonce_point(n), s |-> sig_scalar(public_key(k), nonce_point(n), msg)]
verify_signature(pubkey, sig_r, sig_s, msg) == sig_s = sig_scalar(pubkey, sig_r, msg)

\* ---------------------------------------------------------- r1cs gadgets
is_eq(a, b) == a = b
conditionally_select(cond, true_value, false_value) ==
    IF cond THEN true_value ELSE false_value
conditional_enforce_equal(a, b, cond) == cond => (a = b)

\* FpVar::is_smaller_than_unchecked: lowest bit of 2 * (a - b)
is_smaller_than_unchecked(a, b) == ((2 * ((a - b) % P)) % P) % 2 = 1
\* faulty variant: the bit test without the range checks on the operands
enforce_smaller_than_norange(a, b) == is_smaller_than_unchecked(a, b)
\* FpVar::enforce_smaller_than: both operands <= (p-1)/2, then the bit test
enforce_smaller_than(a, b) ==
    /\ a <= (P - 1) \div 2
    /\ b <= (P - 1) \div 2
    /\ is_smaller_than_unchecked(a, b)
\* FpVar::enforce_cmp(other, Ordering::Less, should_also_check_equality)
enforce_cmp_less(a, b, should_also_check_equality) ==
    enforce_smaller_than(Int_of(a),
        IF should_also_check_equality THEN (Int_of(b) + 1) % P ELSE Int_of(b))

\* ------------------------------------------------------------------ synth
\* pi  : [step, asset_hash, sender, state_in, state_out, nullifier]
\* aux : [value_in, value_out, blind_in, blind_out_0, blind_out_1, sibling,
\*        parent, input_index, nullifier_key, receiver, public_key, signature]

\* identity commitment integrity
sender(aux) == var_id_commitment(aux.nullifier_key, aux.public_key)

\* Branch 1: IssueTx
is_issue_tx(pi) == is_eq(pi.step, Zero)

note_hash_issue(pi, aux) ==
    var_note(pi.asset_hash, pi.sender, Fe(aux.value_out), pi.step, Zero, index_issue)

blind_note_hash_issue(pi, aux) ==
    var_blind_note(note_hash_issue(pi, aux), aux.blind_out_0)

state_out_issue(pi, aux) == var_state(Zero, blind_note_hash_issue(pi, aux))

\* faulty variant: the commitment as second argument of the digest
sighash_issue_second(pi, aux) == var_sighash(Zero, note_hash_issue(pi, aux), Zero)
sighash_issue(pi, aux) == var_sighash(Zero, Zero, note_hash_issue(pi, aux))

\* Branch 2: SplitTx
is_split_tx(pi) == ~is_issue_tx(pi)

\* input leg
is_i0(aux) == is_eq(aux.input_index, index_0)
is_i1(aux) == is_eq(aux.input_index, index_1)

note_in_hash(pi, aux) ==
    var_note(pi.asset_hash, pi.sender, Fe(aux.value_in), pi.step, aux.parent,
             aux.input_index)

blind_note_in_hash(pi, aux) == var_blind_note(note_in_hash(pi, aux), aux.blind_in)

state_in_split(pi, aux) ==
    LET lhs == conditionally_select(is_i0(aux), blind_note_in_hash(pi, aux), aux.sibling)
        rhs == conditionally_select(is_i1(aux), aux.sibling, blind_note_in_hash(pi, aux))
    IN  var_state(lhs, rhs)

nullifier_split(pi, aux) == var_nullifier(note_in_hash(pi, aux), aux.nullifier_key)

\* output leg
value_out_1(aux) == Fe(aux.value_out)
value_out_0(aux) == FieldSub(Fe(aux.value_in), value_out_1(aux))

note_hash_1(pi, aux) ==
    var_note(pi.asset_hash, pi.sender, value_out_1(aux), pi.step,
             blind_note_in_hash(pi, aux), index_1)

blind_note_hash_1(pi, aux) == var_blind_note(note_hash_1(pi, aux), aux.blind_out_1)

note_hash_0(pi, aux) ==
    var_note(pi.asset_hash, aux.receiver, value_out_0(aux), pi.step,
             blind_note_in_hash(pi, aux), index_0)

blind_note_hash_0(pi, aux) == var_blind_note(note_hash_1(pi, aux), aux.blind_out_0)

state_out_split(pi, aux) ==
    var_state(blind_note_hash_0(pi, aux), blind_note_hash_1(pi, aux))

sighash_split(pi, aux) ==
    var_sighash(note_in_hash(pi, aux), note_hash_0(pi, aux), note_hash_1(pi, aux))

\* faulty variants: the ordering gate without equality, and with swapped operands
cmp_out_0_out_1_strict(aux) == enforce_cmp_less(value_out_0(aux), value_out_1(aux), FALSE)
cmp_out_0_out_1_swapped(aux) == enforce_cmp_less(value_out_1(aux), value_out_0(aux), TRUE)
\* the two comparison gates of the output leg
cmp_out_0_out_1(aux) == enforce_cmp_less(value_out_0(aux), value_out_1(aux), TRUE)
cmp_out_1_max(aux) == enforce_cmp_less(value_out_1(aux), Fe(U64Max), TRUE)

\* faulty variant: the Split digest whatever the tx type
sighash_always_split(pi, aux) == sighash_split(pi, aux)
\* select sighash based on the tx type
sighash(pi, aux) ==
    conditionally_select(is_issue_tx(pi), sighash_issue(pi, aux), sighash_split(pi, aux))

\* the gates that bind each branch to the public input
issue_state_in_gate(pi, aux) ==
    conditional_enforce_equal(pi.state_in, pi.asset_hash, is_issue_tx(pi))
issue_state_out_gate(pi, aux) ==
    conditional_enforce_equal(pi.state_out, state_out_issue(pi, aux), is_issue_tx(pi))
split_state_in_gate(pi, aux) ==
    conditional_enforce_equal(pi.state_in, state_in_split(pi, aux), is_split_tx(pi))
\* faulty variant: the nullifier equation enforced in both branches
split_nullifier_gate_ungated(pi, aux) ==
    conditional_enforce_equal(pi.nullifier, nullifier_split(pi, aux), TRUE)
split_nullifier_gate(pi, aux) ==
    conditional_enforce_equal(pi.nullifier, nullifier_split(pi, aux), is_split_tx(pi))
split_state_out_gate(pi, aux) ==
    conditional_enforce_equal(pi.state_out, state_out_split(pi, aux), is_split_tx(pi))

\* synth: the names of the constraints the assignment (pi, aux) violates
synth(pi, aux) ==
    {c \in {"sender", "issue_state_in", "issue_state_out", "input_index",
            "split_state_in", "nullifier", "cmp_out_0_out_1", "cmp_out_1_max",
            "split_state_out", "signature"} :
        ~ CASE c = "sender" -> pi.sender = sender(aux)
            [] c = "issue_state_in" -> issue_state_in_gate(pi, aux)
            [] c = "issue_state_out" -> issue_state_out_gate(pi, aux)
            [] c = "input_index" -> (is_i0(aux) \/ is_i1(aux)) = TRUE
            [] c = "split_state_in" -> split_state_in_gate(pi, aux)
            [] c = "nullifier" -> split_nullifier_gate(pi, aux)
            [] c = "cmp_out_0_out_1" -> cmp_out_0_out_1(aux)
            [] c = "cmp_out_1_max" -> cmp_out_1_max(aux)
            [] c = "split_state_out" -> split_state_out_gate(pi, aux)
            [] c = "signature" ->
                 verify_signature(aux.public_key, aux.signature.r,
                                  aux.signature.s, sighash(pi, aux))}

\* the constraint system of (pi, aux) is satisfied
Satisfied(pi, aux) == synth(pi, aux) = {}

\* ------------------------------------------------------------------ inputs
AssetHash == Fe(31)
BlindIn == Fe(11)
BlindOut0 == Fe(12)
BlindOut1 == Fe(13)
Siblings == {Zero, Fe(21)}
Indexes == {index_issue, index_0, index_1}
NoSignature == [r |-> nonce_point(0), s |-> Zero]

MkAux(vin, vout, bin, sib, par, idx, nk, pk, rcv) ==
    [value_in |-> vin, value_out |-> vout, blind_in |-> bin,
     blind_out_0 |-> BlindOut0, blind_out_1 |-> BlindOut1, sibling |-> sib,
     parent |-> par, input_index |-> idx, nullifier_key |-> nullifier_key_of(nk),
     receiver |-> rcv, public_key |-> public_key(pk), signature |-> NoSignature]

MkPublic(step, id) ==
    [step |-> Fe(step), asset_hash |-> AssetHash, sender |-> address(id),
     state_in |-> Zero, state_out |-> Zero, nullifier |-> Zero]

\* the asset hash, and the states over the spent note and the sibling
StateInCandidates(pi, aux) ==
    {pi.asset_hash} \cup
    {var_state(left, right) :
        left \in {blind_note_in_hash(pi, aux), aux.sibling},
        right \in {blind_note_in_hash(pi, aux), aux.sibling}}
\* the state of an issuance, and the states of a split with the first output
\* blinded from either output commitment
StateOutCandidates(pi, aux) ==
    {var_state(Zero, blind_note_hash_issue(pi, aux))} \cup
    {var_state(var_blind_note(h, aux.blind_out_0), blind_note_hash_1(pi, aux)) :
        h \in {note_hash_0(pi, aux), note_hash_1(pi, aux)}}
NullifierCandidates(pi, aux) ==
    {var_nullifier(note_in_hash(pi, aux), aux.nullifier_key), Zero}
\* the digests of an issuance with the commitment in either output position,
\* and the digest of a split
MessageCandidates(pi, aux) ==
    {var_sighash(Zero, Zero, note_hash_issue(pi, aux)),
     var_sighash(Zero, note_hash_issue(pi, aux), Zero),
     var_sighash(note_in_hash(pi, aux), note_hash_0(pi, aux), note_hash_1(pi, aux))}

\* the circuits over the bounded witness, with a public input and a
\* signature taken from the values the two branches derive and from others
Circuits(step, id, vin, vout, bin, sib, par, idx, nk, pk) ==
    LET aux0 == MkAux(vin, vout, bin, sib, par, idx, nk, pk, address(NumKeys))
        pi0 == MkPublic(step, id)
    IN  {[public |-> [pi0 EXCEPT !.state_in = sin, !.state_out = sout,
                                 !.nullifier = nul],
          aux |-> [aux0 EXCEPT !.signature = sign(id, 1, msg)]] :
            <<sin, sout, nul, msg>> \in
                StateInCandidates(pi0, aux0) \X StateOutCandidates(pi0, aux0)
                \X NullifierCandidates(pi0, aux0) \X MessageCandidates(pi0, aux0)}

\* the sender is the identity of key 1; the witness holds any keys
Init ==
    /\ \E step \in 0..MaxStep, vin \in Values, vout \in Values,
          sib \in Siblings, idx \in Indexes, nk \in Keys, pk \in Keys :
            cir \in Circuits(step, 1, vin, vout, BlindIn, sib, Zero, idx, nk, pk)
    /\ pc = "ready"
    /\ cs = {}

\* synth(cs, cir): synthesize the circuit on the assignment
Synth ==
    /\ pc = "ready"
    /\ cs' = synth(cir.public, cir.aux)
    /\ pc' = "done"
    /\ UNCHANGED cir

Next == Synth

Spec == Init /\ [][Next]_vars

\* the synthesized constraint system is satisfied
Sat == pc = "done" /\ cs = {}
IssueMode == cir.public.step = Zero
SplitMode == cir.public.step # Zero

\* ------------------------------------------------------------------ claims
Pub == cir.public
Aux == cir.aux
ValueOut0 == Int_of(value_out_0(Aux))
ValueOut1 == Aux.value_out
ValueIn == Aux.value_in

\* the notes of a split as the specification describes them
spent_commitment ==
    var_note(Pub.asset_hash, Pub.sender, Fe(ValueIn), Pub.step, Aux.parent,
             Aux.input_index)
spent_blinded == var_blind_note(spent_commitment, Aux.blind_in)
out_0_commitment ==
    var_note(Pub.asset_hash, Aux.receiver, Fe((ValueIn - ValueOut1) % P), Pub.step,
             spent_blinded, index_0)
out_1_commitment ==
    var_note(Pub.asset_hash, Pub.sender, Fe(ValueOut1), Pub.step, spent_blinded,
             index_1)
issue_commitment ==
    var_note(Pub.asset_hash, Pub.sender, Fe(ValueOut1), Zero, Zero, index_issue)

\* C1: in Split mode a satisfying assignment has PublicInput.stateIn =
\* Hasher.state(left, right) with the spent note's blinded commitment in the
\* slot named by inputSlot and the sibling in the other slot.
C1_StateInSlots ==
    (Sat /\ SplitMode) =>
        Pub.state_in = IF Aux.input_index = index_0
                       THEN var_state(spent_blinded, Aux.sibling)
                       ELSE var_state(Aux.sibling, spent_blinded)

\* C2: in Split mode a satisfying assignment has PublicInput.stateOut =
\* Hasher.state(b0, b1), b0 blinded from the Out0 note's own commitment with
\* blindOut0 and b1 from the Out1 note's own commitment with blindOut1.
C2_StateOutOwnCommitments ==
    (Sat /\ SplitMode) =>
        Pub.state_out = var_state(var_blind_note(out_0_commitment, Aux.blind_out_0),
                                  var_blind_note(out_1_commitment, Aux.blind_out_1))

\* C3 as stated: when step = 0 the signature is verified against
\* Hasher.sighash(0, commitment, 0).
C3_IssueDigestSecondArgument ==
    (Sat /\ IssueMode) =>
        verify_signature(Aux.public_key, Aux.signature.r, Aux.signature.s,
                         var_sighash(Zero, issue_commitment, Zero))

\* C3 amended: when step = 0 the signature is verified against
\* Hasher.sighash(0, 0, commitment), the issued note's commitment being the
\* third argument.
C3_IssueDigestThirdArgument ==
    (Sat /\ IssueMode) =>
        verify_signature(Aux.public_key, Aux.signature.r, Aux.signature.s,
                         var_sighash(Zero, Zero, issue_commitment))

C3_Witness == Sat /\ IssueMode /\ ValueOut1 = U64Max

\* C4: issuance completeness.  For the public input {step = 0, assetHash = A,
\* sender = idCommitment(nullifierKey, publicKey), stateIn = A, stateOut =
\* state(0, blindedNote(note(A, S, V, 0, 0, Issue), B))} and a signature valid
\* over the Issue digest, some choice of the witness fields the Issue branch
\* does not use (valueIn, inputSlot) satisfies the circuit.
IssuancePrecondition ==
    /\ pc = "done"
    /\ IssueMode
    /\ Pub.sender = var_id_commitment(Aux.nullifier_key, Aux.public_key)
    /\ Pub.state_in = Pub.asset_hash
    /\ Pub.state_out = var_state(Zero, var_blind_note(issue_commitment, Aux.blind_out_0))
    /\ verify_signature(Aux.public_key, Aux.signature.r, Aux.signature.s,
                        sighash_issue(Pub, Aux))

C4_IssuanceComplete ==
    IssuancePrecondition =>
        \E vin \in Values, idx \in Indexes :
            Satisfied(Pub, [Aux EXCEPT !.value_in = vin, !.input_index = idx])

\* an issuance of value 0 that the witnessed valueIn and inputSlot spoil
C4_Witness ==
    IssuancePrecondition /\ ValueOut1 = 0 /\ ValueIn # 0
    /\ Aux.input_index = index_issue /\ cs # {}

\* C5: after a satisfiable issuance of the largest value at step 0, a Split at
\* step 1 whose stateIn is the issuance's stateOut, spending that value into
\* valueOut1 = value - 1 and valueOut0 = 1, has a satisfying assignment for some
\* parentNote, sibling, inputSlot and blindIn, with nullifier, stateOut and
\* signature derived accordingly.
ChainValueIn == U64Max
ChainValueOut1 == U64Max - 1

ChainedSplits ==
    UNION {Circuits(1, id, ChainValueIn, ChainValueOut1, bin, sib, par, idx, id, id) :
            <<id, bin, sib, par, idx>> \in
                {k \in Keys : address(k) = Pub.sender}
                \X {BlindIn, Aux.blind_out_0}
                \X (Siblings \cup {blind_note_hash_issue(Pub, Aux)})
                \X {Zero, blind_note_hash_issue(Pub, Aux)}
                \X {index_0, index_1}}

C5_ChainedSplit ==
    (Sat /\ IssueMode /\ ValueOut1 = ChainValueIn) =>
        \E c \in ChainedSplits :
            Satisfied([c.public EXCEPT !.state_in = Pub.state_out], c.aux)

\* C6: in a satisfying assignment, changing exactly one witness field while
\* the public input stays fixed gives an assignment that does not satisfy
\* the circuit.
WitnessFields ==
    {"value_in", "value_out", "blind_in", "blind_out_0", "blind_out_1", "sibling",
     "parent", "input_index", "nullifier_key", "receiver", "public_key", "signature"}

Alternatives(f) ==
    CASE f \in {"value_in", "value_out"} -> Values
      [] f \in {"blind_in", "blind_out_0", "blind_out_1"} ->
            {BlindIn, BlindOut0, BlindOut1}
      [] f \in {"sibling", "parent"} -> Siblings \cup {spent_blinded}
      [] f = "input_index" -> Indexes
      [] f = "nullifier_key" -> {nullifier_key_of(k) : k \in Keys}
      [] f = "receiver" -> {address(k) : k \in 1..(NumKeys + 1)}
      [] f = "public_key" -> {public_key(k) : k \in Keys}
      [] f = "signature" ->
            {sign(k, n, sighash(Pub, Aux)) : k \in Keys, n \in 1..2}

C6_WitnessMutation ==
    Sat => \A f \in WitnessFields :
             \A v \in Alternatives(f) :
                v # Aux[f] => ~Satisfied(Pub, [Aux EXCEPT ![f] = v])

\* C7: branch selection by isIssue = (step == 0).  When step = 0 a satisfying
\* assignment has stateIn = assetHash and stateOut = state(0, blinded Issue
\* commitment), none of the Split branch's stateIn, stateOut and nullifier
\* equations is ever violated, and satisfiability does not depend on
\* PublicInput.nullifier.  When step # 0 a satisfying assignment meets the
\* Split branch's stateIn and stateOut equations and nullifier =
\* Hasher.nullifier(spent commitment, nullifierKey), and none of the Issue
\* branch's stateIn and stateOut equations is ever violated.
OtherNullifiers == {Zero, Fe(1), nullifier_split(Pub, Aux)}

C7_BranchSelection ==
    pc = "done" =>
        IF Pub.step = Zero
        THEN /\ cs = {} =>
                  /\ Pub.state_in = Pub.asset_hash
                  /\ Pub.state_out =
                        var_state(Zero, var_blind_note(issue_commitment, Aux.blind_out_0))
             /\ cs \cap {"split_state_in", "split_state_out", "nullifier"} = {}
             /\ \A n \in OtherNullifiers :
                  Satisfied([Pub EXCEPT !.nullifier = n], Aux) = (cs = {})
        ELSE /\ cs = {} =>
                  /\ Pub.state_in = state_in_split(Pub, Aux)
                  /\ Pub.state_out = state_out_split(Pub, Aux)
                  /\ Pub.nullifier = var_nullifier(spent_commitment, Aux.nullifier_key)
             /\ cs \cap {"issue_state_in", "issue_state_out"} = {}

\* a satisfied issuance whose public nullifier, stateIn and stateOut all
\* differ from what the Split branch derives
C7_Witness ==
    /\ Sat /\ IssueMode
    /\ Pub.nullifier # nullifier_split(Pub, Aux)
    /\ Pub.state_in # state_in_split(Pub, Aux)
    /\ Pub.state_out # state_out_split(Pub, Aux)

\* C8: in every satisfying assignment PublicInput.sender =
\* Hasher.idCommitment(nullifierKey, publicKey) and the signature verifies
\* under publicKey for the selected digest (the Issue digest when step = 0,
\* otherwise sighash(input commitment, output commitment 0, output commitment
\* 1)); the signature verifies for no digest in which one of the hashed
\* commitments differs.
SelectedDigest ==
    IF Pub.step = Zero
    THEN var_sighash(Zero, Zero, issue_commitment)
    ELSE var_sighash(spent_commitment, out_0_commitment, out_1_commitment)

ChangedDigests ==
    {var_sighash(a, b, c) :
        <<a, b, c>> \in {Zero, spent_commitment, issue_commitment}
                        \X {Zero, out_0_commitment, issue_commitment}
                        \X {Zero, out_1_commitment, issue_commitment}}
    \ {SelectedDigest}

C8_AuthorizationBinding ==
    Sat =>
        /\ Pub.sender = var_id_commitment(Aux.nullifier_key, Aux.public_key)
        /\ verify_signature(Aux.public_key, Aux.signature.r, Aux.signature.s,
                            SelectedDigest)
        /\ \A m \in ChangedDigests :
              ~verify_signature(Aux.public_key, Aux.signature.r, Aux.signature.s, m)

C8_Witness == Sat /\ SplitMode /\ ValueOut0 # ValueOut1

\* C9 as stated: every satisfying assignment has valueOut0 < valueOut1 and
\* valueOut1 < 2^64.
C9_StrictOrdering ==
    Sat => (ValueOut0 < ValueOut1 /\ ValueOut1 < U64Max + 1)

\* C9 amended: every satisfying assignment has valueOut0 <= valueOut1 and
\* valueOut1 < 2^64; splitting the largest value into valueOut1 = 1 and a
\* larger valueOut0 is unsatisfiable.
C9_Ordering ==
    /\ Sat => (ValueOut0 <= ValueOut1 /\ ValueOut1 < U64Max + 1)
    /\ (pc = "done" /\ ValueOut1 < (ValueIn - ValueOut1) % P) => cs # {}

\* a satisfied split into two equal outputs
C9_Witness == Sat /\ SplitMode /\ ValueOut0 = ValueOut1 /\ ValueOut1 > 0

\* C10: every satisfying assignment has valueOut0 + valueOut1 = valueIn as
\* integers, and a witness with valueIn < valueOut1 is unsatisfiable.
C10_Conservation ==
    /\ Sat => ValueOut0 + ValueOut1 = ValueIn
    /\ (pc = "done" /\ ValueIn < ValueOut1) => cs # {}

C10_Witness == Sat /\ SplitMode /\ ValueOut0 > 0 /\ ValueOut1 > ValueOut0

====
